---- MODULE Spec2Model ----
(***************************************************************************)
(* A model of src/lib.rs of py-mysql-type-plugin: the boundary layer that  *)
(* owns parsed schemas, projects the engine's types and statement outcomes *)
(* to the exported classes, and renders the engine's issues as one report. *)
(*                                                                         *)
(* The engine (crate sql_type) and the renderer (crate ariadne) are used   *)
(* through their interfaces; their stand-ins are marked "engine:" and      *)
(* "renderer:" below.  Py::new(..)? fails only when the host cannot        *)
(* allocate the object; like every other allocation it is taken to         *)
(* succeed.                                                                *)
(***************************************************************************)
EXTENDS Integers, Sequences, FiniteSets, TLC

VARIABLES handles, ret, prev, input, output

vars == <<handles, ret, prev, input, output>>

(***************************************************************************)
(* Bounds of the model.                                                    *)
(***************************************************************************)
MaxValues == 2      \* longest value list of an Enum or Set type
MaxArgs == 2        \* longest argument list given to map_arguments
MaxIssues == 3      \* longest issue list given to issues_to_string
MaxHandles == 1     \* Schemas objects alive at once

None == [op |-> "none"]

SeqsUpTo(S, n) == UNION {[1..k -> S] : k \in 0..n}

(***************************************************************************)
(* sql_type::Type, as map_type matches it.                                 *)
(***************************************************************************)
Strings == {"a", "b", "0"}

BaseTypes == {"Any", "Bool", "Bytes", "Date", "DateTime", "Float", "Integer",
              "String", "Time", "TimeStamp"}

UnitTypes == {"F32", "F64", "I16", "I32", "I64", "I8", "Invalid", "JSON",
              "U16", "U32", "U64", "U8", "Null"}

InternalTypes ==
    {[tag |-> u] : u \in UnitTypes}
      \cup {[tag |-> "Base", base |-> b] : b \in BaseTypes}
      \cup {[tag |-> "Args", base |-> b] : b \in BaseTypes}
      \cup {[tag |-> g, values |-> v] :
                g \in {"Enum", "Set"}, v \in SeqsUpTo(Strings, MaxValues)}

(***************************************************************************)
(* enum Type of lib.rs: the seven exported variants.                       *)
(***************************************************************************)
Type ==
    {[variant |-> x] : x \in {"Any", "Integer", "Float", "Bool", "Bytes", "String"}}
      \cup {[variant |-> "Enum", values |-> v] : v \in SeqsUpTo(Strings, MaxValues)}

\* &str -> String: a copy with the same content
to_string(s) == s

\* map_type with Bytes and String exchanged and the Enum values reversed
map_type_swapped(t) ==
    CASE t.tag = "Args" -> [variant |-> "Any"]
      [] t.tag = "Base" ->
            (CASE t.base = "Any" -> [variant |-> "Any"]
               [] t.base = "Bool" -> [variant |-> "Bool"]
               [] t.base = "Bytes" -> [variant |-> "String"]
               [] t.base = "Date" -> [variant |-> "Any"]
               [] t.base = "DateTime" -> [variant |-> "Any"]
               [] t.base = "Float" -> [variant |-> "Float"]
               [] t.base = "Integer" -> [variant |-> "Integer"]
               [] t.base = "String" -> [variant |-> "Bytes"]
               [] t.base = "Time" -> [variant |-> "Any"]
               [] t.base = "TimeStamp" -> [variant |-> "Any"])
      [] t.tag = "Enum" ->
            [variant |-> "Enum",
             values |-> [i \in 1..Len(t.values) |->
                            to_string(t.values[Len(t.values) + 1 - i])]]
      [] t.tag \in {"F32", "F64"} -> [variant |-> "Float"]
      [] t.tag \in {"I16", "I32", "I64", "I8"} -> [variant |-> "Integer"]
      [] t.tag \in {"Invalid", "JSON", "Null"} -> [variant |-> "Any"]
      [] t.tag = "Set" -> [variant |-> "String"]
      [] t.tag \in {"U16", "U32", "U64", "U8"} -> [variant |-> "Integer"]

map_type(t) ==
    CASE t.tag = "Args" -> [variant |-> "Any"]
      [] t.tag = "Base" ->
            (CASE t.base = "Any" -> [variant |-> "Any"]
               [] t.base = "Bool" -> [variant |-> "Bool"]
               [] t.base = "Bytes" -> [variant |-> "Bytes"]
               [] t.base = "Date" -> [variant |-> "Any"]
               [] t.base = "DateTime" -> [variant |-> "Any"]
               [] t.base = "Float" -> [variant |-> "Float"]
               [] t.base = "Integer" -> [variant |-> "Integer"]
               [] t.base = "String" -> [variant |-> "String"]
               [] t.base = "Time" -> [variant |-> "Any"]
               [] t.base = "TimeStamp" -> [variant |-> "Any"])
      [] t.tag = "Enum" ->
            [variant |-> "Enum",
             values |-> [i \in 1..Len(t.values) |-> to_string(t.values[i])]]
      [] t.tag = "F32" -> [variant |-> "Float"]
      [] t.tag = "F64" -> [variant |-> "Float"]
      [] t.tag = "I16" -> [variant |-> "Integer"]
      [] t.tag = "I32" -> [variant |-> "Integer"]
      [] t.tag = "I64" -> [variant |-> "Integer"]
      [] t.tag = "I8" -> [variant |-> "Integer"]
      [] t.tag = "Invalid" -> [variant |-> "Any"]
      [] t.tag = "JSON" -> [variant |-> "Any"]
      [] t.tag = "Set" -> [variant |-> "String"]
      [] t.tag = "U16" -> [variant |-> "Integer"]
      [] t.tag = "U32" -> [variant |-> "Integer"]
      [] t.tag = "U64" -> [variant |-> "Integer"]
      [] t.tag = "U8" -> [variant |-> "Integer"]
      [] t.tag = "Null" -> [variant |-> "Any"]

(***************************************************************************)
(* Argument keys.  sql_type::ArgumentKey and the ArgumentKey of lib.rs     *)
(* have the same two variants; the two are told apart by their field.      *)
(***************************************************************************)
EngineKeys ==
    {[key |-> "Index", i |-> n] : n \in 0..1}
      \cup {[key |-> "Identifier", s |-> x] : x \in {"a", "0"}}

ArgumentKey ==
    {[kind |-> "Index", index |-> n] : n \in 0..MaxArgs}
      \cup {[kind |-> "Identifier", name |-> x] : x \in Strings}

\* HashMap::insert: the entry of an equal key is replaced
Insert(m, k, v) == [x \in DOMAIN m \cup {k} |-> IF x = k THEN v ELSE m[x]]

EmptyMap == [x \in {} |-> None]

\* map_argument with an Index key written as the Identifier of its digits
map_argument_merged(kv) ==
    LET k == IF kv[1].key = "Index"
             THEN [kind |-> "Identifier", name |-> IF kv[1].i = 0 THEN "0" ELSE "a"]
             ELSE [kind |-> "Identifier", name |-> to_string(kv[1].s)]
    IN  <<k, <<map_type(kv[2].t), kv[2].not_null>>>>

\* the closure of map_arguments: one (key, FullType) pair to one map entry
map_argument(kv) ==
    LET k == IF kv[1].key = "Index"
             THEN [kind |-> "Index", index |-> kv[1].i]
             ELSE [kind |-> "Identifier", name |-> to_string(kv[1].s)]
    IN  <<k, <<map_type(kv[2].t), kv[2].not_null>>>>

\* Iterator::collect into a HashMap: the pairs are inserted in list order
RECURSIVE collect(_, _)
collect(m, pairs) ==
    IF pairs = <<>> THEN m
    ELSE collect(Insert(m, Head(pairs)[1], Head(pairs)[2]), Tail(pairs))

map_arguments(arguments) ==
    collect(EmptyMap, [i \in 1..Len(arguments) |-> map_argument(arguments[i])])

(***************************************************************************)
(* Issues and their rendering.  An Issue is (level, message, span,         *)
(* fragments); a span is a Range<usize> of offsets into the checked text.  *)
(***************************************************************************)
Span(a, b) == [start |-> a, end |-> b]

Issue(l, m, sp, fr) == [level |-> l, message |-> m, span |-> sp, fragments |-> fr]

\* Label::new(span): order 0 and priority 0 unless set
Label(sp, ord, pri, msg) == [span |-> sp, order |-> ord, priority |-> pri, msg |-> msg]

issue_to_report(issue) ==
    [kind |-> IF issue.level = "Warning" THEN "Warning" ELSE "Error",
     offset |-> issue.span.start,
     color |-> FALSE,
     labels |-> <<Label(issue.span, -1, -1, issue.message)>>
                \o [i \in 1..Len(issue.fragments) |->
                       Label(issue.fragments[i][2], 0, 0, issue.fragments[i][1])]]

(***************************************************************************)
(* renderer: Report::write against the NamedSource.  Writing into a Vec    *)
(* cannot fail on I/O.  A label whose span starts after its end is         *)
(* rejected by the renderer with a panic (its documented contract); an     *)
(* offset past the end of the text is not a failure to it.  One written    *)
(* report is one fragment of the output: the display name, the kind, the   *)
(* offset and the labels as handed over; the layout inside a fragment is   *)
(* the renderer's.                                                         *)
(***************************************************************************)
Reversed(sp) == sp.start > sp.end

Rejects(r, source) == \E i \in DOMAIN r.labels : Reversed(r.labels[i].span)

Fragment(name, r) ==
    [name |-> name, kind |-> r.kind, offset |-> r.offset, color |-> r.color,
     labels |-> r.labels]

\* the state of the loop of issues_to_string: err, out, and whether it panicked
LoopState(e, o, p) == [err |-> e, out |-> o, panicked |-> p]

\* r.write(&source, &mut out).unwrap()
write(name, source, r, st) ==
    IF Rejects(r, source)
    THEN LoopState(st.err, st.out, TRUE)
    ELSE LoopState(st.err, Append(st.out, Fragment(name, r)), FALSE)

\* render_issue with err overwritten by each issue
render_issue_last_level(name, source, st, issue) ==
    write(name, source, issue_to_report(issue),
          LoopState(issue.level = "Error", st.out, FALSE))

\* render_issue with nothing rendered once err is set
render_issue_stop_at_error(name, source, st, issue) ==
    IF st.err THEN st
    ELSE write(name, source, issue_to_report(issue),
               LoopState(issue.level = "Error", st.out, FALSE))

\* the body of the loop, lines 56-60, for one issue
render_issue(name, source, st, issue) ==
    LET err == IF issue.level = "Error" THEN TRUE ELSE st.err
    IN  write(name, source, issue_to_report(issue),
              LoopState(err, st.out, FALSE))

RECURSIVE render_loop(_, _, _, _)
render_loop(name, source, st, issues) ==
    IF issues = <<>> \/ st.panicked THEN st
    ELSE render_loop(name, source,
                     render_issue(name, source, st, Head(issues)),
                     Tail(issues))

\* (err, String::from_utf8(out).unwrap()), or the panic of a failed write
issues_to_string(name, source, issues) ==
    LET st == render_loop(name, source, LoopState(FALSE, <<>>, FALSE), issues)
    IN  IF st.panicked THEN [panicked |-> TRUE]
        ELSE [panicked |-> FALSE, err |-> st.err, report |-> st.out]


(***************************************************************************)
(* The three pure functions on inputs drawn from bounded sets.             *)
(***************************************************************************)
FullType(t, nn) == [t |-> t, not_null |-> nn]

ArgTypes == {[tag |-> "I32"], [tag |-> "Base", base |-> "String"],
             [tag |-> "Enum", values |-> <<"b", "a">>]}

DistinctKeys(arguments) ==
    \A i, j \in DOMAIN arguments : i # j => arguments[i][1] # arguments[j][1]

\* engine: the argument list of one statement names each key once
ArgLists ==
    {a \in SeqsUpTo(EngineKeys \X {FullType(t, nn) : t \in ArgTypes, nn \in BOOLEAN},
                    MaxArgs) : DistinctKeys(a)}

SampleSource == <<"s", "q", "l">>

FragLists ==
    {<<>>,
     <<<<"first", Span(0, 1)>>>>,
     <<<<"first", Span(0, 1)>>, <<"second", Span(2, 3)>>>>,
     <<<<"second", Span(2, 3)>>, <<"first", Span(0, 1)>>>>}

\* engine: spans lie inside the text the issue is about
IssuePool ==
    {Issue(l, "msg", Span(1, 2), fr) : l \in {"Warning", "Error"}, fr \in FragLists}

\* spans as a Range<usize> allows them: reversed, or past the end of the text
BadFragLists ==
    {<<>>,
     <<<<"first", Span(0, 1)>>>>,
     <<<<"first", Span(3, 2)>>>>,
     <<<<"first", Span(2, Len(SampleSource) + 2)>>>>}

AnySpanPool ==
    {Issue(l, "msg", sp, fr) :
        l \in {"Warning", "Error"},
        sp \in {Span(1, 2), Span(2, 1), Span(Len(SampleSource) + 1, Len(SampleSource) + 2)},
        fr \in BadFragLists}

PureInputs ==
    {[fn |-> "map_type", t |-> t] : t \in InternalTypes}
      \cup {[fn |-> "map_arguments", arguments |-> a] : a \in ArgLists}
      \cup {[fn |-> "issues_to_string", name |-> "schema.sql", source |-> SampleSource,
             issues |-> is] : is \in SeqsUpTo(IssuePool, MaxIssues)}

SpanInputs ==
    {[fn |-> "issues_to_string", name |-> "schema.sql", source |-> SampleSource,
      issues |-> is] : is \in SeqsUpTo(AnySpanPool, MaxIssues)}

NoOutput == [fn |-> "none"]

Idle == handles = <<>> /\ ret = None /\ prev = None

InitPure == Idle /\ input \in PureInputs /\ output = NoOutput

InitSpans == Idle /\ input \in SpanInputs /\ output = NoOutput

Call_map_type ==
    /\ input.fn = "map_type"
    /\ output = NoOutput
    /\ output' = [fn |-> "map_type", type |-> map_type(input.t)]
    /\ UNCHANGED <<handles, ret, prev, input>>

Call_map_arguments ==
    /\ input.fn = "map_arguments"
    /\ output = NoOutput
    /\ output' = [fn |-> "map_arguments", arguments |-> map_arguments(input.arguments)]
    /\ UNCHANGED <<handles, ret, prev, input>>

Call_issues_to_string ==
    /\ input.fn = "issues_to_string"
    /\ output = NoOutput
    /\ output' = [fn |-> "issues_to_string",
                  result |-> issues_to_string(input.name, input.source, input.issues)]
    /\ UNCHANGED <<handles, ret, prev, input>>

NextPure == Call_map_type \/ Call_map_arguments \/ Call_issues_to_string

SpecPure == InitPure /\ [][NextPure]_vars

NextSpans == Call_issues_to_string

SpecSpans == InitSpans /\ [][NextSpans]_vars


(***************************************************************************)
(* Claims about the pure functions, checked under SpecPure.                *)
(***************************************************************************)
HasError(issues) == \E i \in DOMAIN issues : issues[i].level = "Error"

\* C1: issues_to_string returns hadError = TRUE exactly when some issue of
\* the list has level Error; a non-empty list of warnings gives FALSE with a
\* non-empty report, and the empty list gives FALSE with the empty report.
C1_HadErrorIffError ==
    output.fn = "issues_to_string" =>
        /\ ~output.result.panicked
        /\ output.result.err = HasError(input.issues)
        /\ (input.issues # <<>> /\ ~HasError(input.issues)) =>
              (~output.result.err /\ output.result.report # <<>>)
        /\ input.issues = <<>> =>
              (~output.result.err /\ output.result.report = <<>>)

C1_Witness ==
    /\ output.fn = "issues_to_string"
    /\ Len(input.issues) = MaxIssues
    /\ ~HasError(input.issues)
    /\ ~output.result.err
    /\ Len(output.result.report) = MaxIssues

\* the documented table of the projection
ExpectedVariant(t) ==
    IF t.tag \in {"I8", "I16", "I32", "I64", "U8", "U16", "U32", "U64"} THEN "Integer"
    ELSE IF t.tag \in {"F32", "F64"} THEN "Float"
    ELSE IF t.tag = "Enum" THEN "Enum"
    ELSE IF t.tag = "Set" THEN "String"
    ELSE IF t.tag = "Base" /\ t.base \in {"Integer", "Float", "Bool", "Bytes", "String"}
         THEN t.base
    ELSE "Any"

\* C2: map_type sends every internal type to one of the seven exported
\* variants, as the table says; an Enum keeps its values in their order and
\* no other variant carries any.
C2_MapTypeTable ==
    output.fn = "map_type" =>
        /\ output.type \in Type
        /\ output.type.variant = ExpectedVariant(input.t)
        /\ input.t.tag = "Enum" => output.type.values = input.t.values

C2_Witness ==
    /\ output.fn = "map_type"
    /\ input.t.tag = "Enum"
    /\ Len(input.t.values) = MaxValues
    /\ input.t.values[1] # input.t.values[MaxValues]
    /\ output.type.variant = "Enum"

ExpectedKey(k) ==
    IF k.key = "Index" THEN [kind |-> "Index", index |-> k.i]
    ELSE [kind |-> "Identifier", name |-> k.s]

\* C3: map_arguments gives a map with as many entries as the list has pairs;
\* Index(i) stays Index(i), Identifier(s) stays Identifier(s), and each key
\* maps to (map_type of its type, its not_null flag).
C3_ArgumentKeysKept ==
    output.fn = "map_arguments" =>
        /\ Cardinality(DOMAIN output.arguments) = Len(input.arguments)
        /\ DOMAIN output.arguments \subseteq ArgumentKey
        /\ DOMAIN output.arguments = {ExpectedKey(input.arguments[i][1]) :
                                          i \in DOMAIN input.arguments}
        /\ \A i \in DOMAIN input.arguments :
              output.arguments[ExpectedKey(input.arguments[i][1])] =
                  <<map_type(input.arguments[i][2].t), input.arguments[i][2].not_null>>

C3_Witness ==
    /\ output.fn = "map_arguments"
    /\ Len(input.arguments) = MaxArgs
    /\ [kind |-> "Index", index |-> 0] \in DOMAIN output.arguments
    /\ [kind |-> "Identifier", name |-> "0"] \in DOMAIN output.arguments

C9_MalformedSpanRendered ==
    output.fn = "issues_to_string" =>
        /\ ~output.result.panicked
        /\ Len(output.result.report) >= Len(input.issues) - 1


(***************************************************************************)
(* engine: sql_type, reduced to a deterministic function of its inputs.    *)
(* A text is a sequence of tokens and token i has the span (i-1, i).  A    *)
(* schema text lists table definitions: "t" stands for                     *)
(*   CREATE TABLE t(id INT NOT NULL AUTO_INCREMENT, name VARCHAR(10))      *)
(* and "u" for a table with an ENUM, a SET and a DATETIME column; any      *)
(* other token does not parse.  A statement is <<verb, table, item, ..>>   *)
(* with the items being column names, the literal "1", placeholders, and   *)
(* "ODKU" for ON DUPLICATE KEY UPDATE.                                     *)
(***************************************************************************)
TokenSpan(i) == Span(i - 1, i)

KnownTables == {"t", "u"}

Column(n, t, nn) == [name |-> n, type_ |-> FullType(t, nn)]

TableColumns(tbl) ==
    IF tbl = "t"
    THEN <<Column("id", [tag |-> "I32"], TRUE),
           Column("name", [tag |-> "Base", base |-> "String"], FALSE)>>
    ELSE <<Column("kind", [tag |-> "Enum", values |-> <<"b", "a">>], TRUE),
           Column("flags", [tag |-> "Set", values |-> <<"a", "b">>], FALSE),
           Column("at", [tag |-> "Base", base |-> "DateTime"], FALSE)>>

\* TypeOptions::new()
TypeOptionsNew ==
    [dialect |-> "default", arguments |-> "default",
     warn_duplicate_column_in_select |-> FALSE,
     warn_unnamed_column_in_select |-> FALSE]

\* the sequences parts[1], .., parts[n] joined in this order
Concat(parts) ==
    LET g[i \in 0..Len(parts)] == IF i = 0 THEN <<>> ELSE g[i - 1] \o parts[i]
    IN  g[Len(parts)]

\* sql_type::schema::parse_schemas: the parsed tables refer into src
engine_parse_schemas(src, options) ==
    LET bad(i) == IF src[i] \in KnownTables THEN <<>>
                  ELSE <<Issue("Error", "expected table definition", TokenSpan(i), <<>>)>>
    IN  [schemas |-> {i \in DOMAIN src : src[i] \in KnownTables},
         issues |-> Concat([i \in 1..Len(src) |-> bad(i)])]

Placeholders == {"%s", "%(a)s", "%(0)s"}

PlaceholderKey(statement, i) ==
    IF statement[i] = "%s"
    THEN [key |-> "Index", i |-> Cardinality({j \in 1..(i - 1) : statement[j] = "%s"})]
    ELSE [key |-> "Identifier", s |-> IF statement[i] = "%(a)s" THEN "a" ELSE "0"]

\* the arguments of a statement: each key once, in order of first use
EngineArguments(statement, tbl) ==
    LET first(i) == /\ statement[i] \in Placeholders
                    /\ \A j \in 1..(i - 1) : statement[j] # statement[i] \/ statement[i] = "%s"
        arg(i) == IF first(i)
                  THEN <<<<PlaceholderKey(statement, i),
                           IF statement[i] = "%s" THEN TableColumns(tbl)[1].type_
                           ELSE FullType([tag |-> "Base", base |-> "Any"], FALSE)>>>>
                  ELSE <<>>
    IN  Concat([i \in 1..Len(statement) |-> arg(i)])

IsColumnItem(statement, i) == i > 2 /\ statement[i] \notin Placeholders \cup {"ODKU"}

EngineColumns(statement, tbl) ==
    LET cols == TableColumns(tbl)
        col(i) ==
            IF ~IsColumnItem(statement, i) THEN <<>>
            ELSE IF statement[i] = "1"
            THEN <<[name |-> <<>>, type_ |-> FullType([tag |-> "Base", base |-> "Integer"], TRUE)]>>
            ELSE IF \E c \in DOMAIN cols : cols[c].name = statement[i]
            THEN LET c == CHOOSE c \in DOMAIN cols : cols[c].name = statement[i]
                 IN  <<[name |-> <<statement[i]>>, type_ |-> cols[c].type_]>>
            ELSE <<[name |-> <<statement[i]>>, type_ |-> FullType([tag |-> "Invalid"], FALSE)]>>
    IN  Concat([i \in 1..Len(statement) |-> col(i)])

EngineSelectIssues(statement, tbl, options) ==
    LET cols == TableColumns(tbl)
        iss(i) ==
            IF ~IsColumnItem(statement, i) THEN <<>>
            ELSE IF statement[i] = "1"
            THEN IF options.warn_unnamed_column_in_select
                 THEN <<Issue("Warning", "unnamed column in select", TokenSpan(i), <<>>)>>
                 ELSE <<>>
            ELSE (IF \E c \in DOMAIN cols : cols[c].name = statement[i] THEN <<>>
                  ELSE <<Issue("Error", "unknown identifier", TokenSpan(i), <<>>)>>)
                 \o (IF /\ options.warn_duplicate_column_in_select
                        /\ \E j \in 3..(i - 1) : statement[j] = statement[i]
                     THEN LET j == CHOOSE j \in 3..(i - 1) : statement[j] = statement[i]
                          IN  <<Issue("Warning", "duplicate column in select", TokenSpan(i),
                                      <<<<"also defined here", TokenSpan(j)>>>>)>>
                     ELSE <<>>)
    IN  Concat([i \in 1..Len(statement) |-> iss(i)])

EngineAutoIncrement(statement, tbl) ==
    IF tbl # "t" THEN "No"
    ELSE IF \E i \in DOMAIN statement : statement[i] = "ODKU" THEN "Optional"
    ELSE IF \E i \in DOMAIN statement : statement[i] = "id" THEN "No"
    ELSE "Yes"

\* sql_type::type_statement: (StatementType, the issues it adds)
engine_type_statement(tables, statement, options) ==
    LET verb == statement[1]
        tbl == statement[2]
        args == EngineArguments(statement, tbl)
        invalid(msg, i) ==
            [stmt |-> [kind |-> "Invalid"],
             issues |-> <<Issue("Error", msg, TokenSpan(i), <<>>)>>]
    IN  IF verb \notin {"SELECT", "INSERT", "UPDATE", "DELETE", "REPLACE"}
        THEN invalid("expected statement", 1)
        ELSE IF tbl \notin tables
        THEN invalid("unknown table", 2)
        ELSE IF options.arguments # "Percent" /\ args # <<>>
        THEN invalid("unexpected token", 3)
        ELSE IF verb = "SELECT"
        THEN [stmt |-> [kind |-> "Select", columns |-> EngineColumns(statement, tbl),
                        arguments |-> args],
              issues |-> EngineSelectIssues(statement, tbl, options)]
        ELSE IF verb = "INSERT"
        THEN [stmt |-> [kind |-> "Insert",
                        yield_autoincrement |-> EngineAutoIncrement(statement, tbl),
                        arguments |-> args],
              issues |-> <<>>]
        ELSE [stmt |-> [kind |-> CASE verb = "UPDATE" -> "Update"
                                   [] verb = "DELETE" -> "Delete"
                                   [] verb = "REPLACE" -> "Replace",
                        arguments |-> args],
              issues |-> <<>>]

SchemaSources == {<<>>, <<"t", "u">>, <<"t", "create?">>}

Statements ==
    {<<"SELECT", "t", "id", "name">>,
     <<"SELECT", "t", "id", "id">>,
     <<"SELECT", "t", "1", "name", "%s">>,
     <<"SELECT", "u", "kind", "flags", "at", "%(a)s", "%s", "%(a)s">>,
     <<"SELECT", "t", "nope">>,
     <<"INSERT", "t", "name", "%s">>,
     <<"INSERT", "t", "id", "name", "%s", "%s">>,
     <<"INSERT", "t", "name", "%(0)s", "%s", "ODKU">>,
     <<"UPDATE", "t", "%s", "%(a)s">>,
     <<"DELETE", "t", "%(a)s">>,
     <<"REPLACE", "u", "%s">>,
     <<"EXPLAIN", "t">>}


(***************************************************************************)
(* The Schemas object and the two exported functions.                      *)
(***************************************************************************)
\* struct Schemas: src, and the parsed schemas borrowing from it
Schemas(src, schemas) == [src |-> src, schemas |-> schemas]

\* Schemas::borrow_schemas: the tables, read through their references into src
borrow_schemas(handle) == {handle.src[i] : i \in handle.schemas}

dialect(options, d) == [options EXCEPT !.dialect = d]

arguments(options, a) == [options EXCEPT !.arguments = a]

\* type_options with only the duplicate-column warning set
type_options_one_warning(dict_result) ==
    LET options == arguments(dialect(TypeOptionsNew, "MariaDB"), "Percent")
    IN  IF dict_result
        THEN [options EXCEPT !.warn_duplicate_column_in_select = TRUE]
        ELSE options

\* lines 247-255
type_options(dict_result) ==
    LET options == arguments(dialect(TypeOptionsNew, "MariaDB"), "Percent")
    IN  IF dict_result
        THEN [options EXCEPT !.warn_duplicate_column_in_select = TRUE,
                             !.warn_unnamed_column_in_select = TRUE]
        ELSE options

\* new_issues with the vector of the call before not cleared
leftover_issues == IF ret.op \in {"none", "panic"} THEN <<>> ELSE ret.issues

\* let mut issues = Vec::new()
new_issues == <<>>

\* Option<Identifier>::map(to_string): <<>> is None, <<s>> is Some(s)
map_name(name) == [i \in DOMAIN name |-> to_string(name[i])]

\* select_columns with the unnamed columns filtered out
select_columns_named(columns) ==
    LET named == SelectSeq(columns, LAMBDA v : v.name # <<>>)
    IN  [i \in 1..Len(named) |->
            <<map_name(named[i].name), map_type(named[i].type_.t), named[i].type_.not_null>>]

\* lines 261-270
select_columns(columns) ==
    [i \in 1..Len(columns) |->
        <<map_name(columns[i].name), map_type(columns[i].type_.t),
          columns[i].type_.not_null>>]

\* autoincrement_tag with Optional spelled after the variant
autoincrement_tag_optional(yield_autoincrement) ==
    CASE yield_autoincrement = "Yes" -> "yes"
      [] yield_autoincrement = "No" -> "no"
      [] yield_autoincrement = "Optional" -> "optional"

\* lines 291-295
autoincrement_tag(yield_autoincrement) ==
    CASE yield_autoincrement = "Yes" -> "yes"
      [] yield_autoincrement = "No" -> "no"
      [] yield_autoincrement = "Optional" -> "maybe"

\* statement_result with the Replace arm building an Update
statement_result_replace_as_update(stmt) ==
    CASE stmt.kind = "Select" ->
            [class |-> "Select", arguments |-> map_arguments(stmt.arguments),
             columns |-> select_columns(stmt.columns)]
      [] stmt.kind = "Delete" ->
            [class |-> "Delete", arguments |-> map_arguments(stmt.arguments)]
      [] stmt.kind = "Insert" ->
            [class |-> "Insert",
             yield_autoincrement |-> autoincrement_tag(stmt.yield_autoincrement),
             arguments |-> map_arguments(stmt.arguments)]
      [] stmt.kind \in {"Update", "Replace"} ->
            [class |-> "Update", arguments |-> map_arguments(stmt.arguments)]
      [] stmt.kind = "Invalid" -> [class |-> "Invalid"]

\* lines 259-320: the match on the engine's StatementType
statement_result(stmt) ==
    CASE stmt.kind = "Select" ->
            [class |-> "Select", arguments |-> map_arguments(stmt.arguments),
             columns |-> select_columns(stmt.columns)]
      [] stmt.kind = "Delete" ->
            [class |-> "Delete", arguments |-> map_arguments(stmt.arguments)]
      [] stmt.kind = "Insert" ->
            [class |-> "Insert",
             yield_autoincrement |-> autoincrement_tag(stmt.yield_autoincrement),
             arguments |-> map_arguments(stmt.arguments)]
      [] stmt.kind = "Update" ->
            [class |-> "Update", arguments |-> map_arguments(stmt.arguments)]
      [] stmt.kind = "Replace" ->
            [class |-> "Replace", arguments |-> map_arguments(stmt.arguments)]
      [] stmt.kind = "Invalid" -> [class |-> "Invalid"]

\* what one call is known by: the handle, the statement and dict_result
IsCall(r) == r.op = "type_statement"

Init ==
    /\ handles = <<>>
    /\ ret = None
    /\ prev = None
    /\ input = None
    /\ output = NoOutput

\* parse_schemas(name, src) -> (Schemas, bool, String)
parse_schemas(name, src) ==
    /\ Len(handles) < MaxHandles
    /\ LET parsed == engine_parse_schemas(src, dialect(TypeOptionsNew, "MariaDB"))
           schemas == Schemas(src, parsed.schemas)
           issues == <<>> \o parsed.issues
           r == issues_to_string(name, schemas.src, issues)
       IN  IF r.panicked
           THEN handles' = handles /\ ret' = [op |-> "panic"]
           ELSE /\ handles' = Append(handles, schemas)
                /\ ret' = [op |-> "parse_schemas", schemas |-> Len(handles) + 1,
                           issues |-> issues, err |-> r.err, report |-> r.report]
    /\ UNCHANGED <<prev, input, output>>

\* type_statement(schemas, statement, dict_result) -> (PyObject, bool, String);
\* schemas is the index of a live Schemas object
type_statement(schemas, statement, dict_result) ==
    /\ schemas \in DOMAIN handles
    /\ LET options == type_options(dict_result)
           typed == engine_type_statement(borrow_schemas(handles[schemas]),
                                          statement, options)
           issues == new_issues \o typed.issues
           res == statement_result(typed.stmt)
           r == issues_to_string("", statement, issues)
       IN  IF r.panicked
           THEN ret' = [op |-> "panic"]
           ELSE ret' = [op |-> "type_statement", schemas |-> schemas,
                        statement |-> statement, dict_result |-> dict_result,
                        options |-> options, stmt |-> typed.stmt,
                        added |-> typed.issues, issues |-> issues,
                        res |-> res, err |-> r.err, report |-> r.report]
    \* one earlier call, any of them, is kept for comparison with later ones
    /\ \/ prev' = prev
       \/ prev = None /\ IsCall(ret) /\ prev' = ret
    /\ UNCHANGED <<handles, input, output>>

Next ==
    \/ \E src \in SchemaSources : parse_schemas("schema.sql", src)
    \/ \E schemas \in 1..MaxHandles, statement \in Statements, dict_result \in BOOLEAN :
          type_statement(schemas, statement, dict_result)

Spec == Init /\ [][Next]_vars


(***************************************************************************)
(* Claims about type_statement and the Schemas object, checked under Spec. *)
(***************************************************************************)
SameCall(a, b) ==
    /\ a.schemas = b.schemas
    /\ a.statement = b.statement
    /\ a.dict_result = b.dict_result

\* C4: a type_statement call returns one object of the class named like the
\* engine's outcome; Update, Delete and Replace hold only the projected
\* argument map and Invalid holds nothing.
C4_ResultKindIsOutcomeKind ==
    /\ ret.op # "panic"
    /\ IsCall(ret) =>
        /\ ret.res.class \in {"Select", "Insert", "Update", "Delete", "Replace", "Invalid"}
        /\ ret.res.class = ret.stmt.kind
        /\ ret.res.class \in {"Update", "Delete", "Replace"} =>
              /\ DOMAIN ret.res = {"class", "arguments"}
              /\ ret.res.arguments = map_arguments(ret.stmt.arguments)
        /\ ret.res.class = "Invalid" => DOMAIN ret.res = {"class"}

C4_Witness ==
    /\ IsCall(ret)
    /\ ret.res.class = "Replace"
    /\ ret.res.arguments # EmptyMap
    /\ IsCall(prev)
    /\ prev.res.class = "Invalid"

\* C5: the columns of a Select are the engine's columns, one for one and in
\* the engine's order: (its optional name, map_type of its type, its
\* not_null flag); a column without a name stays without one.
C5_SelectColumnsInOrder ==
    (IsCall(ret) /\ ret.stmt.kind = "Select") =>
        /\ Len(ret.res.columns) = Len(ret.stmt.columns)
        /\ \A i \in DOMAIN ret.stmt.columns :
              /\ ret.res.columns[i][1] = ret.stmt.columns[i].name
              /\ ret.res.columns[i][2] = map_type(ret.stmt.columns[i].type_.t)
              /\ ret.res.columns[i][3] = ret.stmt.columns[i].type_.not_null

C5_Witness ==
    /\ IsCall(ret)
    /\ ret.stmt.kind = "Select"
    /\ Len(ret.res.columns) = 2
    /\ ret.res.columns[1][1] = <<>>
    /\ ret.res.columns[2] = <<<<"name">>, [variant |-> "String"], FALSE>>

ExpectedTag(a) == IF a = "Yes" THEN "yes" ELSE IF a = "No" THEN "no" ELSE "maybe"

\* C6: an Insert carries "yes" for Yes, "no" for No and "maybe" for Optional,
\* never another tag, and its arguments are the projected argument list.
C6_AutoIncrementTags ==
    (IsCall(ret) /\ ret.stmt.kind = "Insert") =>
        /\ ret.res.yield_autoincrement \in {"yes", "no", "maybe"}
        /\ ret.res.yield_autoincrement = ExpectedTag(ret.stmt.yield_autoincrement)
        /\ ret.res.arguments = map_arguments(ret.stmt.arguments)
        /\ (IsCall(prev) /\ prev.stmt.kind = "Insert"
              /\ prev.stmt.yield_autoincrement # ret.stmt.yield_autoincrement) =>
              prev.res.yield_autoincrement # ret.res.yield_autoincrement

C6_Witness ==
    /\ IsCall(ret)
    /\ ret.stmt.kind = "Insert"
    /\ ret.stmt.yield_autoincrement = "Optional"
    /\ ret.res.yield_autoincrement = "maybe"
    /\ IsCall(prev)
    /\ prev.stmt.kind = "Insert"
    /\ prev.res.yield_autoincrement = "yes"

\* C7: every call gives the engine the MariaDB dialect and the percent
\* placeholders, and both select warnings exactly when dict_result is true;
\* two calls with the same engine outcome return the same object whatever
\* their dict_result.
C7_DictResultOnlyWarnings ==
    IsCall(ret) =>
        /\ ret.options.dialect = "MariaDB"
        /\ ret.options.arguments = "Percent"
        /\ ret.options.warn_duplicate_column_in_select = ret.dict_result
        /\ ret.options.warn_unnamed_column_in_select = ret.dict_result
        /\ (IsCall(prev) /\ prev.stmt = ret.stmt) => prev.res = ret.res

C7_Witness ==
    /\ IsCall(ret)
    /\ IsCall(prev)
    /\ ret.dict_result
    /\ ~prev.dict_result
    /\ prev.statement = ret.statement
    /\ prev.stmt = ret.stmt
    /\ ret.stmt.kind = "Select"
    /\ prev.report = <<>>
    /\ ret.report # <<>>
    /\ prev.res = ret.res

\* C10: no step changes a Schemas object once parse_schemas has made it: its
\* text and its parsed tables stay as they are, the tables referring into
\* the text; a type_statement call returns what an earlier call with the
\* same handle, statement and dict_result returned, and its hadError and
\* report are those of the issues the engine added in this call alone,
\* rendered against the statement under the empty name.
C10_SchemasImmutable ==
    [][/\ \A h \in DOMAIN handles : h \in DOMAIN handles' /\ handles'[h] = handles[h]
       /\ \A h \in DOMAIN handles' : handles'[h].schemas \subseteq DOMAIN handles'[h].src
       /\ IsCall(ret') =>
            /\ ret'.err = HasError(ret'.added)
            /\ Len(ret'.report) = Len(ret'.added)
            /\ \A i \in DOMAIN ret'.report :
                  /\ ret'.report[i].name = ""
                  /\ ret'.report[i].labels[1].msg = ret'.added[i].message
                  /\ ret'.report[i].labels[1].span = ret'.added[i].span
            /\ (IsCall(prev') /\ SameCall(prev', ret')) =>
                  /\ prev'.res = ret'.res
                  /\ prev'.err = ret'.err
                  /\ prev'.report = ret'.report]_vars

C10_Witness ==
    /\ Len(handles) >= 1
    /\ \E i \in DOMAIN handles[1].src : i \notin handles[1].schemas
    /\ handles[1].schemas # {}
    /\ IsCall(prev)
    /\ IsCall(ret)
    /\ SameCall(prev, ret)
    /\ ret.res.class = "Select"
    /\ ~ret.err
    /\ ret.report = <<>>
    /\ prev.report = ret.report


====
